---- MODULE Spec2Model ----
(***************************************************************************)
(* A model of amethyst_collision_2d: the rectangle overlap geometry, the   *)
(* collision events, the three systems of ColliderPhysicsBundle and the    *)
(* velocity response kernels.                                              *)
(*                                                                         *)
(* f32 values are modelled as integers (fixed point, one unit = 1.0) plus  *)
(* the value NaN.  Inputs are drawn so that every multiplication by 0.5 in *)
(* the geometry is exact: translations, offsets and velocities are even    *)
(* and extents are multiples of four.  The two trigonometric kernels round *)
(* their result to the even grid.                                          *)
(***************************************************************************)
EXTENDS Integers, Sequences, FiniteSets, TLC

\* Bounds of the model.
NumEntities == 3
MaxTicks == 2
MaxCoord == 2
MaxExtent == 2
DeltaSeconds == 1

VARIABLES
    colliders,          \* ReadStorage<Collider2D>: entity -> Option<Collider2D>
    transforms,         \* storage of Transform: entity -> Option<Transform>
    deactivations,      \* NullStorage<DeactivateCollider>: set of entities
    passive,            \* NullStorage<PassiveCollider>: set of entities
    velocities,         \* storage of Velocity: entity -> Option<Vector2>
    modes,              \* storage of HandleCollisionMode: entity -> Option<mode>
    handle_collisions,  \* ColliderPhysicsBundle.handle_collisions
    channel,            \* EventChannel<CollisionEvent>: the events written so far
    reader,             \* HandleCollisionsSystem.reader: Option<events already read>
    phase,              \* the system the dispatcher runs next
    tick,               \* number of the current tick
    written,            \* history: written[i] is the tick in which channel[i] was written
    handled,            \* history: one record per event HandleCollisionsSystem processed
    call                \* the last call of a pure function and its result

vars == <<colliders, transforms, deactivations, passive, velocities, modes,
          handle_collisions, channel, reader, phase, tick, written, handled, call>>

world == <<colliders, transforms, deactivations, passive, velocities, modes,
           handle_collisions, channel, reader, phase, tick, written, handled>>

Entities == 1..NumEntities

(***************************************************************************)
(* Option<T>: None is the empty tuple, Some(x) the one-element tuple.      *)
(***************************************************************************)
None == <<>>
Some(x) == <<x>>
Unwrap(o) == o[1]

(***************************************************************************)
(* f32 arithmetic.  NaN is absorbing in arithmetic, every comparison with  *)
(* NaN is false, and f32::min ignores a NaN operand.                       *)
(***************************************************************************)
NaN == -1000000

FAdd(a, b) == IF a = NaN \/ b = NaN THEN NaN ELSE a + b
FSub(a, b) == IF a = NaN \/ b = NaN THEN NaN ELSE a - b
FMul(a, b) == IF a = NaN \/ b = NaN THEN NaN ELSE a * b
FNeg(a) == IF a = NaN THEN NaN ELSE 0 - a
FHalf(a) == IF a = NaN THEN NaN ELSE a \div 2
FAbs(a) == IF a = NaN THEN NaN ELSE IF a < 0 THEN 0 - a ELSE a
FMin(a, b) == IF a = NaN THEN b ELSE IF b = NaN THEN a ELSE IF a < b THEN a ELSE b
FLt(a, b) == a # NaN /\ b # NaN /\ a < b
FGt(a, b) == a # NaN /\ b # NaN /\ a > b
FGe(a, b) == a # NaN /\ b # NaN /\ a >= b

\* Vector2<f32>
VAdd(u, v) == <<FAdd(u[1], v[1]), FAdd(u[2], v[2])>>
VSub(u, v) == <<FSub(u[1], v[1]), FSub(u[2], v[2])>>
VNeg(u) == <<FNeg(u[1]), FNeg(u[2])>>
Dot(u, v) == FAdd(FMul(u[1], v[1]), FMul(u[2], v[2]))

(***************************************************************************)
(* components.rs: Collider2D and the overlap geometry.                     *)
(***************************************************************************)
rect(width, height, offset) ==
    [offset |-> offset, shape |-> [width |-> width, height |-> height]]

scaled_by(self, x, y) ==
    rect(FMul(self.shape.width, x), FMul(self.shape.height, y),
         <<FMul(self.offset[1], x), FMul(self.offset[2], y)>>)

\* Mutant of overlap: the nested layouts are not told apart, the overlap always
\* runs from the later start to the end of the interval that starts first.
overlapNoNesting(start, width, other_start, other_width) ==
    LET start1 == FSub(start, FMin(width, 0))
        other_start1 == FSub(other_start, FMin(width, 0))
        end == FAdd(start1, FAbs(width))
        other_end == FAdd(other_start1, FAbs(other_width))
    IN  IF FLt(end, other_start1) \/ FGt(start1, other_end)
        THEN None
        ELSE IF FLt(start1, other_start1)
             THEN Some([start |-> other_start1, width |-> FSub(end, other_start1)])
             ELSE Some([start |-> start1, width |-> FSub(other_end, start1)])

overlap(start, width, other_start, other_width) ==
    LET start1 == FSub(start, FMin(width, 0))
        other_start1 == FSub(other_start, FMin(width, 0))
        width1 == FAbs(width)
        other_width1 == FAbs(other_width)
        end == FAdd(start1, width1)
        other_end == FAdd(other_start1, other_width1)
    IN  IF FLt(end, other_start1) \/ FGt(start1, other_end)
        THEN None
        ELSE IF FLt(start1, other_start1)
             THEN Some([start |-> other_start1,
                        width |-> IF FGt(end, other_end)
                                  THEN other_width1
                                  ELSE FSub(end, other_start1)])
             ELSE Some([start |-> start1,
                        width |-> IF FLt(end, other_end)
                                  THEN width1
                                  ELSE FSub(other_end, start1)])

overlap_center(pos, extent, other_pos, other_extent) ==
    LET ov == overlap(FSub(pos, FHalf(extent)), extent,
                      FSub(other_pos, FHalf(other_extent)), other_extent)
    IN  IF ov = None THEN None
        ELSE Some(FAdd(Unwrap(ov).start, FHalf(Unwrap(ov).width)))

collision(self, self_pos, other, other_pos) ==
    LET coll_center == VAdd(self_pos, self.offset)
        other_coll_center == VAdd(other_pos, other.offset)
        coll_x == overlap_center(coll_center[1], self.shape.width,
                                 other_coll_center[1], other.shape.width)
        coll_y == overlap_center(coll_center[2], self.shape.height,
                                 other_coll_center[2], other.shape.height)
    IN  IF coll_x # None /\ coll_y # None
        THEN Some(<<Unwrap(coll_x), Unwrap(coll_y)>>)
        ELSE None

\* Mutant of collision_paths: both paths are taken from self_pos.
collision_pathsFromSelf(self, self_pos, other, other_pos) ==
    LET c == collision(self, self_pos, other, other_pos)
    IN  IF c = None THEN None
        ELSE Some(<<VSub(Unwrap(c), self_pos), VSub(Unwrap(c), self_pos)>>)

collision_paths(self, self_pos, other, other_pos) ==
    LET c == collision(self, self_pos, other, other_pos)
    IN  IF c = None THEN None
        ELSE Some(<<VSub(Unwrap(c), self_pos), VSub(Unwrap(c), other_pos)>>)

(***************************************************************************)
(* events.rs: Collision and CollisionEvent.  collisions[1] and             *)
(* collisions[2] are the source's collisions[0] and collisions[1].         *)
(***************************************************************************)
Collision_new(entity, path) == [entity |-> entity, path |-> path]

\* Mutant of CollisionEvent_new: the two participants are stored in reverse.
CollisionEvent_newReversed(first, second, collision_path_first, collision_path_second) ==
    [collisions |-> <<Collision_new(second, collision_path_second),
                      Collision_new(first, collision_path_first)>>]

CollisionEvent_new(first, second, collision_path_first, collision_path_second) ==
    [collisions |-> <<Collision_new(first, collision_path_first),
                      Collision_new(second, collision_path_second)>>]

from_collision(first, second, first_collider, second_collider, first_transform, second_transform) ==
    LET first_scale == first_transform.scale
        first_scaled == scaled_by(first_collider, first_scale[1], first_scale[2])
        second_scale == second_transform.scale
        second_scaled == scaled_by(second_collider, second_scale[1], second_scale[2])
        pos == first_transform.translation
        other_pos == second_transform.translation
        coll_paths == collision_paths(first_scaled, pos, second_scaled, other_pos)
    IN  IF coll_paths # None
        THEN Some(CollisionEvent_new(first, second,
                                     Unwrap(coll_paths)[1], Unwrap(coll_paths)[2]))
        ELSE None

(***************************************************************************)
(* systems.rs: CollisionSystem.  A join visits the entities that have      *)
(* every joined component in ascending entity id; all assignments of       *)
(* components to ids are initial states, so every relative order of the    *)
(* entities' roles occurs.                                                 *)
(***************************************************************************)
RECURSIVE Join(_)
Join(S) ==
    IF S = {} THEN <<>>
    ELSE LET e == CHOOSE x \in S : \A y \in S : x <= y
         IN  <<e>> \o Join(S \ {e})

\* Mutant of OuterJoin: passive entities iterate as outer entities too.
OuterJoinWithPassive ==
    {e \in Entities : /\ colliders[e] # None
                      /\ transforms[e] # None
                      /\ e \notin deactivations}

OuterJoin ==
    {e \in Entities : /\ colliders[e] # None
                      /\ transforms[e] # None
                      /\ e \notin deactivations
                      /\ e \notin passive}

\* Mutant of InnerJoin: the inner join forgets !&deactivations.
InnerJoinWithDeactivated ==
    {e \in Entities : /\ colliders[e] # None
                      /\ transforms[e] # None}

InnerJoin ==
    {e \in Entities : /\ colliders[e] # None
                      /\ transforms[e] # None
                      /\ e \notin deactivations}

RECURSIVE InnerLoop(_, _, _, _)

\* Mutant of InnerLoop: only the outer entity itself is skipped, not every
\* entity already visited as outer.
RECURSIVE InnerLoopSkipSelfOnly(_, _, _, _)
InnerLoopSkipSelfOnly(entity, others, covered, out) ==
    IF others = <<>> THEN out
    ELSE LET other == Head(others)
             event == from_collision(entity, other,
                                     Unwrap(colliders[entity]), Unwrap(colliders[other]),
                                     Unwrap(transforms[entity]), Unwrap(transforms[other]))
         IN  InnerLoopSkipSelfOnly(entity, Tail(others), covered,
                       IF other = entity THEN out
                       ELSE IF event # None THEN Append(out, Unwrap(event))
                       ELSE out)

InnerLoop(entity, others, covered, out) ==
    IF others = <<>> THEN out
    ELSE LET other == Head(others)
             event == from_collision(entity, other,
                                     Unwrap(colliders[entity]), Unwrap(colliders[other]),
                                     Unwrap(transforms[entity]), Unwrap(transforms[other]))
         IN  InnerLoop(entity, Tail(others), covered,
                       IF other \in covered THEN out
                       ELSE IF event # None THEN Append(out, Unwrap(event))
                       ELSE out)

RECURSIVE OuterLoop(_, _, _)

\* Mutant of OuterLoop: covered.insert(entity) runs after the inner loop.
OuterLoopInsertAfter(outers, covered, out) ==
    IF outers = <<>> THEN out
    ELSE LET entity == Head(outers)
         IN  OuterLoop(Tail(outers), covered \cup {entity},
                       InnerLoop(entity, Join(InnerJoin), covered, out))

OuterLoop(outers, covered, out) ==
    IF outers = <<>> THEN out
    ELSE LET entity == Head(outers)
             covered1 == covered \cup {entity}
         IN  OuterLoop(Tail(outers), covered1,
                       InnerLoop(entity, Join(InnerJoin), covered1, out))

\* The events one run of CollisionSystem writes, in the order written.
CollisionSystemEvents == OuterLoop(Join(OuterJoin), {}, <<>>)

CollisionSystem ==
    /\ phase = "collision"
    /\ channel' = channel \o CollisionSystemEvents
    /\ written' = written \o [i \in 1..Len(CollisionSystemEvents) |-> tick]
    /\ phase' = IF handle_collisions THEN "handle" ELSE "movement"
    /\ UNCHANGED <<colliders, transforms, deactivations, passive, velocities, modes,
                   handle_collisions, reader, tick, handled, call>>

(***************************************************************************)
(* Detection alone: one run of CollisionSystem over any assignment of      *)
(* components and placements to the entities.                              *)
(***************************************************************************)
Kinds ==
    {k \in [c : BOOLEAN, t : BOOLEAN, d : BOOLEAN, p : BOOLEAN] :
        \/ k.c /\ k.t
        \/ ~k.d /\ ~k.p /\ (k.c \/ k.t)}

DetectCollider == rect(8, 4, <<2, 0>>)

Placements ==
    {[translation |-> <<0, 0>>, scale |-> <<1, 1>>],
     [translation |-> <<12, 0>>, scale |-> <<1, 1>>],
     [translation |-> <<10, 2>>, scale |-> <<2, 1>>],
     [translation |-> <<0, 8>>, scale |-> <<1, 1>>]}

InitDetect ==
    /\ \E kind \in [Entities -> Kinds], place \in [Entities -> Placements] :
        /\ colliders = [e \in Entities |->
                           IF kind[e].c THEN Some(DetectCollider) ELSE None]
        /\ transforms = [e \in Entities |->
                            IF kind[e].t THEN Some(place[e]) ELSE None]
        /\ deactivations = {e \in Entities : kind[e].d}
        /\ passive = {e \in Entities : kind[e].p}
    /\ velocities = [e \in Entities |-> None]
    /\ modes = [e \in Entities |-> None]
    /\ handle_collisions = FALSE
    /\ channel = <<>>
    /\ reader = None
    /\ phase = "collision"
    /\ tick = 1
    /\ written = <<>>
    /\ handled = <<>>
    /\ call = [fn |-> "none"]

NextDetect == CollisionSystem

SpecDetect == InitDetect /\ [][NextDetect]_vars


(***************************************************************************)
(* utils.rs: the response kernels.  The angle 2 * acos(dot / norms), with  *)
(* the sign of the cross product, is kept as its cosine c / d and sine     *)
(* s / d; it is NaN when norms is zero (0.0 / 0.0).  Results are rounded   *)
(* to the even grid.                                                       *)
(***************************************************************************)
IsNaNVec(v) == v[1] = NaN \/ v[2] = NaN

NaNVec == <<NaN, NaN>>

\* The integer nearest to n / d, for d > 0.
RoundDiv(n, d) == (2 * n + d) \div (2 * d)

\* The largest k with k * k <= n.
ISqrt(n) == CHOOSE k \in 0..n : k * k <= n /\ (k + 1) * (k + 1) > n

\* Twice the signed angle between velocity and normal (reflect_mut, lines 18-25
\* and the factor 2 of line 27).
DoubleAngle(velocity, normal) ==
    LET dot == Dot(velocity, normal)
        cross == FSub(FMul(velocity[1], normal[2]), FMul(velocity[2], normal[1]))
        norms2 == FMul(Dot(velocity, velocity), Dot(normal, normal))
    IN  IF dot = NaN \/ cross = NaN \/ norms2 = NaN \/ norms2 = 0
        THEN [c |-> NaN, s |-> NaN, d |-> NaN]
        ELSE [c |-> dot * dot - cross * cross, s |-> 2 * dot * cross, d |-> norms2]

rotate_vec(vec, angle) ==
    IF angle.d = NaN \/ IsNaNVec(vec)
    THEN NaNVec
    ELSE <<2 * RoundDiv(vec[1] * angle.c - vec[2] * angle.s, 2 * angle.d),
           2 * RoundDiv(vec[1] * angle.s + vec[2] * angle.c, 2 * angle.d)>>

reflect_mut(velocity, normal) ==
    VNeg(rotate_vec(velocity, DoubleAngle(velocity, normal)))

reflect_velocity(velocity, collision_vec) ==
    reflect_mut(velocity, VNeg(collision_vec))

\* other_collision.normalize() * velocity.norm(), per component:
\* sign(o) * sqrt(o * o * |velocity|^2 / |other_collision|^2).
oppose_collision(velocity, other_collision) ==
    LET vv == Dot(velocity, velocity)
        oo == Dot(other_collision, other_collision)
        comp(o) == (IF o < 0 THEN -2 ELSE 2) * ((ISqrt((o * o * vv) \div oo) + 1) \div 2)
    IN  IF vv = NaN \/ oo = NaN \/ oo = 0
        THEN NaNVec
        ELSE <<comp(other_collision[1]), comp(other_collision[2])>>

\* HandleCollisionMode
Ignore == [kind |-> "Ignore"]
Reflect == [kind |-> "Reflect"]
Bounce(bounciness) == [kind |-> "Bounce", bounciness |-> bounciness]
Oppose == [kind |-> "Oppose"]

\* Mutant of handle_collision: Oppose uses the participant's own path and
\* Reflect and Bounce the other participant's.
handle_collisionSwappedPaths(coll, other_collision, components) ==
    LET velocity == components.velocity
        mode == components.mode
    IN  IF mode.kind = "Ignore" THEN velocity
        ELSE IF mode.kind = "Reflect" THEN reflect_velocity(velocity, other_collision.path)
        ELSE IF mode.kind = "Bounce"
             THEN LET r == reflect_velocity(velocity, other_collision.path)
                  IN  <<FMul(r[1], mode.bounciness), FMul(r[2], mode.bounciness)>>
        ELSE oppose_collision(velocity, coll.path)

\* The velocity handle_collision leaves in components.velocity.
handle_collision(coll, other_collision, components) ==
    LET velocity == components.velocity
        mode == components.mode
    IN  IF mode.kind = "Ignore" THEN velocity
        ELSE IF mode.kind = "Reflect" THEN reflect_velocity(velocity, coll.path)
        ELSE IF mode.kind = "Bounce"
             THEN LET r == reflect_velocity(velocity, coll.path)
                  IN  <<FMul(r[1], mode.bounciness), FMul(r[2], mode.bounciness)>>
        ELSE oppose_collision(velocity, other_collision.path)

\* HandleCollisionStorages::get_components over the storages (ms, vs).
get_components(ms, vs, entity) ==
    IF ms[entity] # None /\ vs[entity] # None
    THEN Some([mode |-> Unwrap(ms[entity]), velocity |-> Unwrap(vs[entity])])
    ELSE None

(***************************************************************************)
(* systems.rs: HandleCollisionsSystem and MovementSystem.                  *)
(***************************************************************************)
\* The body of the loop of HandleCollisionsSystem::run: the velocity storage
\* after one event.
HandleEvent(event, vs) ==
    LET c0 == event.collisions[1]
        c1 == event.collisions[2]
        comps0 == get_components(modes, vs, c0.entity)
        vs1 == IF comps0 # None
               THEN [vs EXCEPT ![c0.entity] = Some(handle_collision(c0, c1, Unwrap(comps0)))]
               ELSE vs
        comps1 == get_components(modes, vs1, c1.entity)
    IN  IF comps1 # None
        THEN [vs1 EXCEPT ![c1.entity] = Some(handle_collision(c1, c0, Unwrap(comps1)))]
        ELSE vs1

\* Mutant of ReaderAfterRead: the read leaves the reader where it was.
ReaderAfterReadStale(ch, rd) == rd

\* channel.read(reader): the events written since the reader's last read, and
\* the reader after it.
ReadEvents(ch, rd) == SubSeq(ch, Unwrap(rd) + 1, Len(ch))

ReaderAfterRead(ch, rd) == Some(Len(ch))

\* The loop of HandleCollisionsSystem::run over the events channel[i..last]:
\* the velocity storage and the history after it.
RECURSIVE HandleLoop(_, _, _, _)
HandleLoop(i, last, vs, log) ==
    IF i > last THEN [velocities |-> vs, handled |-> log]
    ELSE LET event == channel[i]
             vs1 == HandleEvent(event, vs)
             e0 == event.collisions[1].entity
             e1 == event.collisions[2].entity
         IN  HandleLoop(i + 1, last, vs1,
                        Append(log, [index |-> i, tick |-> tick, seen |-> Len(channel),
                                     before |-> <<vs[e0], vs[e1]>>,
                                     after |-> <<vs1[e0], vs1[e1]>>]))

HandleCollisionsSystem ==
    /\ phase = "handle"
    /\ LET first == Len(channel) - Len(ReadEvents(channel, reader)) + 1
           result == HandleLoop(first, Len(channel), velocities, handled)
       IN  /\ velocities' = result.velocities
           /\ handled' = result.handled
    /\ reader' = ReaderAfterRead(channel, reader)
    /\ phase' = "movement"
    /\ UNCHANGED <<colliders, transforms, deactivations, passive, modes,
                   handle_collisions, channel, tick, written, call>>

\* Mutant of Translate: translate_y is given velx.
TranslateBothByVelX(transform, velocity, delta) ==
    [transform EXCEPT !.translation =
        <<FAdd(@[1], FMul(velocity[1], delta)), FAdd(@[2], FMul(velocity[1], delta))>>]

\* transform.translate_x(velx * delta); transform.translate_y(vely * delta)
Translate(transform, velocity, delta) ==
    [transform EXCEPT !.translation =
        <<FAdd(@[1], FMul(velocity[1], delta)), FAdd(@[2], FMul(velocity[2], delta))>>]

MovementSystem ==
    /\ phase = "movement"
    /\ tick < MaxTicks
    /\ tick' = tick + 1
    /\ transforms' = [e \in Entities |->
                         IF transforms[e] # None /\ velocities[e] # None
                         THEN Some(Translate(Unwrap(transforms[e]), Unwrap(velocities[e]),
                                             DeltaSeconds))
                         ELSE transforms[e]]
    /\ phase' = "collision"
    /\ UNCHANGED <<colliders, deactivations, passive, velocities, modes,
                   handle_collisions, channel, reader, written, handled, call>>

(***************************************************************************)
(* lib.rs: the dispatcher ColliderPhysicsBundle::build sets up runs        *)
(* movement_system, collision_system and, with with_collision_handler,     *)
(* handle_collisions_system, in this order, once per tick.  Init is the    *)
(* state after build and setup: the reader is registered on the empty      *)
(* channel.  Every entity has a collider and a transform; its response     *)
(* mode and its velocity are drawn.                                        *)
(***************************************************************************)
ModeChoices == {None, Some(Ignore), Some(Reflect), Some(Bounce(2)), Some(Oppose)}

StartCollider(e) == IF e = 2 THEN rect(16, 16, <<0, 0>>) ELSE rect(8, 8, <<0, 0>>)

StartTranslation(e) == <<6 * (e - 2), 2 * ((e - 1) % 2)>>

StartVelocity(e) == <<4 - 2 * e, 2 - 4 * (e % 2)>>

Init ==
    /\ colliders = [e \in Entities |-> Some(StartCollider(e))]
    /\ transforms = [e \in Entities |->
                        Some([translation |-> StartTranslation(e), scale |-> <<1, 1>>])]
    /\ deactivations = {}
    /\ passive = {}
    /\ \E moving \in SUBSET Entities :
        velocities = [e \in Entities |->
                         IF e \in moving THEN Some(StartVelocity(e)) ELSE None]
    /\ modes \in [Entities -> ModeChoices]
    /\ handle_collisions \in BOOLEAN
    /\ channel = <<>>
    /\ reader = IF handle_collisions THEN Some(0) ELSE None
    /\ phase = "movement"
    /\ tick = 0
    /\ written = <<>>
    /\ handled = <<>>
    /\ call = [fn |-> "none"]

Next == MovementSystem \/ CollisionSystem \/ HandleCollisionsSystem

Spec == Init /\ [][Next]_vars

(***************************************************************************)
(* Properties of one run of CollisionSystem.                               *)
(***************************************************************************)
Participants(ev) == {ev.collisions[1].entity, ev.collisions[2].entity}

PairCount(a, b) ==
    Cardinality({i \in 1..Len(channel) : Participants(channel[i]) = {a, b}})

\* Has Collider2D and Transform and no DeactivateCollider.
Eligible(e) ==
    /\ colliders[e] # None
    /\ transforms[e] # None
    /\ e \notin deactivations

\* The closed world-space boxes of a and b intersect (extents and scales >= 0):
\* centre = translation + offset * scale, extents = (width * sx, height * sy).
WorldCentre(e, ax) ==
    Unwrap(transforms[e]).translation[ax]
        + Unwrap(colliders[e]).offset[ax] * Unwrap(transforms[e]).scale[ax]

WorldExtent(e, ax) ==
    (IF ax = 1 THEN Unwrap(colliders[e]).shape.width
               ELSE Unwrap(colliders[e]).shape.height)
        * Unwrap(transforms[e]).scale[ax]

BoxesOverlap(a, b) ==
    \A ax \in 1..2 :
        LET d == WorldCentre(a, ax) - WorldCentre(b, ax)
        IN  2 * (IF d < 0 THEN 0 - d ELSE d) <= WorldExtent(a, ax) + WorldExtent(b, ax)

RunDone == phase # "collision"

\* C1: after one run of CollisionSystem no unordered pair of distinct entities
\* has more than one event, and every pair of eligible entities (Collider2D,
\* Transform, no DeactivateCollider) that are not both passive and whose
\* scaled boxes overlap has exactly one event.
C1_OneEventPerCollidingPair ==
    RunDone =>
        \A a, b \in Entities :
            a # b =>
                /\ PairCount(a, b) <= 1
                /\ ( /\ Eligible(a) /\ Eligible(b)
                     /\ ~({a, b} \subseteq passive)
                     /\ BoxesOverlap(a, b) ) => PairCount(a, b) = 1

C1_Witness ==
    /\ RunDone
    /\ \E a, b, c \in Entities :
        /\ a # b /\ b # c /\ a # c
        /\ Eligible(a) /\ Eligible(b) /\ Eligible(c)
        /\ a \notin passive /\ b \notin passive /\ c \in passive
        /\ BoxesOverlap(a, b) /\ PairCount(a, b) = 1
        /\ BoxesOverlap(b, c) /\ PairCount(b, c) = 1
        /\ ~BoxesOverlap(a, c) /\ PairCount(a, c) = 0

\* C2: every participant of every event written has Collider2D and Transform
\* and no DeactivateCollider.
C2_ParticipantsEligible ==
    \A i \in 1..Len(channel) : \A e \in Participants(channel[i]) : Eligible(e)

C2_Witness ==
    /\ RunDone
    /\ Len(channel) > 0
    /\ \E a, d \in Entities :
        /\ Eligible(a) /\ a \notin passive
        /\ d \in deactivations /\ colliders[d] # None /\ transforms[d] # None
        /\ BoxesOverlap(a, d)

\* C3: no event is written for a pair of entities that both carry
\* PassiveCollider.
C3_NoPassivePassiveEvent ==
    \A i \in 1..Len(channel) : ~(Participants(channel[i]) \subseteq passive)

C3_Witness ==
    /\ RunDone
    /\ \E p, q, a \in Entities :
        /\ p # q
        /\ Eligible(p) /\ Eligible(q) /\ Eligible(a)
        /\ p \in passive /\ q \in passive /\ a \notin passive
        /\ BoxesOverlap(p, q)
        /\ PairCount(a, p) = 1

\* C4: the two participants of an event are different entities.
C4_NoSelfPair ==
    \A i \in 1..Len(channel) :
        channel[i].collisions[1].entity # channel[i].collisions[2].entity

C4_Witness ==
    /\ RunDone
    /\ \E i \in 1..Len(channel) :
        /\ channel[i].collisions[1].entity \in InnerJoin
        /\ channel[i].collisions[1].entity \notin passive

(***************************************************************************)
(* The geometry as pure functions: each action calls one function of       *)
(* components.rs or events.rs on inputs drawn from bounded sets and keeps  *)
(* the arguments and the result in call; a behaviour is one call.          *)
(***************************************************************************)
Coords == {2 * k : k \in (0 - MaxCoord)..MaxCoord}
Extents == {4 * k : k \in (0 - MaxExtent)..MaxExtent}
Heights == {-4, 8}
Offsets == {<<0, 0>>, <<2, -2>>}
Positions == {<<x, y>> : x \in Coords, y \in {0, 2}}
Scales == {<<1, 1>>, <<2, 1>>, <<-1, 2>>}

CallOverlapCenter ==
    /\ phase = "pure"
    /\ call.fn = "none"
    /\ \E pos \in Coords, extent \in Extents, other_pos \in Coords, other_extent \in Extents :
        call' = [fn |-> "overlap_center",
                 pos |-> pos, extent |-> extent,
                 other_pos |-> other_pos, other_extent |-> other_extent,
                 ret |-> overlap_center(pos, extent, other_pos, other_extent)]
    /\ UNCHANGED world

CallCollision ==
    /\ phase = "pure"
    /\ call.fn = "none"
    /\ \E o1 \in Offsets, w1 \in Extents, h1 \in Heights, self_pos \in Positions,
          o2 \in Offsets, w2 \in Extents, h2 \in Heights, other_pos \in Positions :
        call' = [fn |-> "collision",
                 self |-> rect(w1, h1, o1), self_pos |-> self_pos,
                 other |-> rect(w2, h2, o2), other_pos |-> other_pos,
                 ret |-> collision(rect(w1, h1, o1), self_pos, rect(w2, h2, o2), other_pos)]
    /\ UNCHANGED world

CallFromCollision ==
    /\ phase = "pure"
    /\ call.fn = "none"
    /\ \E first \in {1, 2},
          o1 \in Offsets, w1 \in {4, 8}, t1 \in Positions, s1 \in Scales,
          o2 \in Offsets, w2 \in {4, 8}, t2 \in Positions, s2 \in Scales :
        LET second == 3 - first
            first_collider == rect(w1, 4, o1)
            second_collider == rect(w2, 4, o2)
            first_transform == [translation |-> t1, scale |-> s1]
            second_transform == [translation |-> t2, scale |-> s2]
        IN  call' = [fn |-> "from_collision",
                     first |-> first, second |-> second,
                     first_collider |-> first_collider,
                     second_collider |-> second_collider,
                     first_transform |-> first_transform,
                     second_transform |-> second_transform,
                     ret |-> from_collision(first, second,
                                            first_collider, second_collider,
                                            first_transform, second_transform)]
    /\ UNCHANGED world

InitGeom ==
    /\ colliders = [e \in Entities |-> None]
    /\ transforms = [e \in Entities |-> None]
    /\ deactivations = {}
    /\ passive = {}
    /\ velocities = [e \in Entities |-> None]
    /\ modes = [e \in Entities |-> None]
    /\ handle_collisions = FALSE
    /\ channel = <<>>
    /\ reader = None
    /\ phase = "pure"
    /\ tick = 0
    /\ written = <<>>
    /\ handled = <<>>
    /\ call = [fn |-> "none"]

NextGeom == CallOverlapCenter \/ CallCollision \/ CallFromCollision

SpecGeom == InitGeom /\ [][NextGeom]_vars

(***************************************************************************)
(* Properties of the geometry.                                             *)
(***************************************************************************)
Max(a, b) == IF a > b THEN a ELSE b
Min(a, b) == IF a < b THEN a ELSE b

\* C5: collision(A, posA, B, posB) is Some exactly when
\* collision(B, posB, A, posA) is, and then both give the same overlap centre,
\* for any extents, negative ones included.
C5_CollisionSymmetric ==
    call.fn = "collision" =>
        call.ret = collision(call.other, call.other_pos, call.self, call.self_pos)

\* C6: for non-negative extents overlap_center is None exactly when the closed
\* intervals [p1 - e1/2, p1 + e1/2] and [p2 - e2/2, p2 + e2/2] are disjoint, and
\* otherwise the midpoint of their intersection.  (Bounds are doubled and the
\* midpoint is multiplied by four to stay in the integers.)
C6_OverlapCenterIsMidpoint ==
    (call.fn = "overlap_center" /\ call.extent >= 0 /\ call.other_extent >= 0) =>
        LET lo1 == 2 * call.pos - call.extent
            hi1 == 2 * call.pos + call.extent
            lo2 == 2 * call.other_pos - call.other_extent
            hi2 == 2 * call.other_pos + call.other_extent
            disjoint == hi1 < lo2 \/ hi2 < lo1
        IN  /\ (call.ret = None) <=> disjoint
            /\ ~disjoint => 4 * Unwrap(call.ret) = Max(lo1, lo2) + Min(hi1, hi2)

\* Second strictly inside first: the layout in which the overlap is the whole
\* second interval.
C6_Witness ==
    /\ call.fn = "overlap_center"
    /\ call.extent > call.other_extent /\ call.other_extent > 0
    /\ 2 * call.pos - call.extent < 2 * call.other_pos - call.other_extent
    /\ 2 * call.other_pos + call.other_extent < 2 * call.pos + call.extent
    /\ call.ret = Some(call.other_pos)

\* C7: each participant's path plus its entity's translation is the overlap
\* centre Collider2D::collision returns for the scaled colliders.
C7_PathPlusTranslationIsCentre ==
    (call.fn = "from_collision" /\ call.ret # None) =>
        LET s1 == call.first_transform.scale
            s2 == call.second_transform.scale
            t1 == call.first_transform.translation
            t2 == call.second_transform.translation
            c == collision(scaled_by(call.first_collider, s1[1], s1[2]), t1,
                           scaled_by(call.second_collider, s2[1], s2[2]), t2)
            ev == Unwrap(call.ret)
        IN  /\ c # None
            /\ ev.collisions[1].entity = call.first
            /\ ev.collisions[2].entity = call.second
            /\ VAdd(ev.collisions[1].path, t1) = Unwrap(c)
            /\ VAdd(ev.collisions[2].path, t2) = Unwrap(c)

C7_Witness ==
    /\ call.fn = "from_collision"
    /\ call.ret # None
    /\ call.first_transform.scale # <<1, 1>>
    /\ call.first_transform.translation # call.second_transform.translation
    /\ Unwrap(call.ret).collisions[1].path # <<0, 0>>
    /\ Unwrap(call.ret).collisions[2].path # <<0, 0>>
    /\ Unwrap(call.ret).collisions[1].path # Unwrap(call.ret).collisions[2].path

\* |extent| of a collider, for C10.
AbsCollider(c) == rect(FAbs(c.shape.width), FAbs(c.shape.height), c.offset)

\* C10: a collider with a negative extent collides like the box with the
\* same centre and the absolute extents.
C10_ExtentsByAbsoluteValue ==
    call.fn = "collision" =>
        call.ret = collision(AbsCollider(call.self), call.self_pos,
                             AbsCollider(call.other), call.other_pos)

(***************************************************************************)
(* Properties of the response and of the order of the systems.             *)
(***************************************************************************)
\* The velocity the claim gives a handled participant with velocity v.
ClaimedVelocity(mode, v, own_path, other_path) ==
    CASE mode.kind = "Ignore" -> v
      [] mode.kind = "Reflect" -> reflect_velocity(v, own_path)
      [] mode.kind = "Bounce" ->
            <<FMul(mode.bounciness, reflect_velocity(v, own_path)[1]),
              FMul(mode.bounciness, reflect_velocity(v, own_path)[2])>>
      [] mode.kind = "Oppose" -> oppose_collision(v, other_path)

\* C8: for every event HandleCollisionsSystem processed and each of its two
\* participants: with HandleCollisionMode and Velocity the velocity after the
\* event is the mode's function of the velocity before it (Reflect and Bounce
\* on the participant's own path, Oppose on the other participant's path);
\* without either component the velocity is unchanged, whatever the other
\* participant has.
C8_EachParticipantHandled ==
    \A j \in 1..Len(handled) :
        LET r == handled[j]
            ev == channel[r.index]
        IN  \A k \in 1..2 :
                LET e == ev.collisions[k].entity
                    own_path == ev.collisions[k].path
                    other_path == ev.collisions[3 - k].path
                IN  IF modes[e] # None /\ r.before[k] # None
                    THEN r.after[k] = Some(ClaimedVelocity(Unwrap(modes[e]),
                                                           Unwrap(r.before[k]),
                                                           own_path, other_path))
                    ELSE r.after[k] = r.before[k]

\* An event whose first participant has no HandleCollisionMode and whose
\* second participant is handled in mode Oppose, on two different paths.
C8_Witness ==
    \E j \in 1..Len(handled) :
        LET r == handled[j]
            ev == channel[r.index]
            e0 == ev.collisions[1].entity
            e1 == ev.collisions[2].entity
        IN  /\ modes[e0] = None
            /\ r.before[1] # None
            /\ modes[e1] = Some(Oppose)
            /\ r.before[2] # None
            /\ r.after[2] # r.before[2]
            /\ ~IsNaNVec(Unwrap(r.after[2]))
            /\ oppose_collision(Unwrap(r.before[2]), ev.collisions[2].path) # Unwrap(r.after[2])

ProcessedCount(i) == Cardinality({j \in 1..Len(handled) : handled[j].index = i})

\* The tick in which channel[i] was written has run its last system.
TickOver(i) == phase = "movement" \/ written[i] < tick

\* C9: with the response system installed, once the tick that wrote an event
\* is over the event has been processed exactly once, in that tick and after
\* every event of that tick was written; before that it has not been processed.
C9_ProcessedOnceInItsTick ==
    handle_collisions =>
        \A i \in 1..Len(channel) :
            IF TickOver(i)
            THEN /\ ProcessedCount(i) = 1
                 /\ \A j \in 1..Len(handled) :
                        handled[j].index = i =>
                            /\ handled[j].tick = written[i]
                            /\ \A m \in 1..Len(channel) :
                                   written[m] = written[i] => m <= handled[j].seen
            ELSE ProcessedCount(i) = 0

C9_Witness ==
    /\ handle_collisions
    /\ phase = "movement"
    /\ tick = 2
    /\ \E i, m \in 1..Len(channel) : written[i] = 1 /\ written[m] = 2
    /\ \E i \in 1..Len(channel) : written[i] = 1 /\ written[Len(channel)] = 2 /\ i + 1 < Len(channel)

(***************************************************************************)
(* The response kernels of utils.rs as pure functions: each action calls   *)
(* one kernel on a velocity and a collision vector drawn from bounded      *)
(* sets, the zero vector included; a behaviour is one call.                *)
(***************************************************************************)
Vectors == {<<x, y>> : x \in Coords, y \in Coords}

CallReflectVelocity ==
    /\ phase = "pure"
    /\ call.fn = "none"
    /\ \E velocity \in Vectors, collision_vec \in Vectors :
        call' = [fn |-> "reflect_velocity",
                 velocity |-> velocity, collision |-> collision_vec,
                 ret |-> reflect_velocity(velocity, collision_vec)]
    /\ UNCHANGED world

CallOpposeCollision ==
    /\ phase = "pure"
    /\ call.fn = "none"
    /\ \E velocity \in Vectors, other_collision \in Vectors :
        call' = [fn |-> "oppose_collision",
                 velocity |-> velocity, other_collision |-> other_collision,
                 ret |-> oppose_collision(velocity, other_collision)]
    /\ UNCHANGED world

NextKernel == CallReflectVelocity \/ CallOpposeCollision

SpecKernel == InitGeom /\ [][NextKernel]_vars

\* C11: in the degenerate cases the kernels return the velocity they were
\* given: reflect_velocity when the velocity or the collision vector has zero
\* length, oppose_collision when the other path has zero length.
C11_DegenerateLeavesVelocity ==
    /\ ( /\ call.fn = "reflect_velocity"
         /\ (call.velocity = <<0, 0>> \/ call.collision = <<0, 0>>) )
            => call.ret = call.velocity
    /\ (call.fn = "oppose_collision" /\ call.other_collision = <<0, 0>>)
            => call.ret = call.velocity

(***************************************************************************)
(* Properties of the order of Movement and Detection.                      *)
(***************************************************************************)
\* The transform the claim gives entity e after Movement.
ClaimedTransform(e) ==
    IF velocities[e] = None
    THEN Unwrap(transforms[e])
    ELSE [translation |->
              <<FAdd(Unwrap(transforms[e]).translation[1],
                     FMul(Unwrap(velocities[e])[1], DeltaSeconds)),
                FAdd(Unwrap(transforms[e]).translation[2],
                     FMul(Unwrap(velocities[e])[2], DeltaSeconds))>>,
          scale |-> Unwrap(transforms[e]).scale]

\* C12: every step that starts a tick is Movement: it writes no event and
\* leaves each entity's translation at translation + velocity * delta (its
\* old translation without Velocity) and its scale unchanged.  Detection
\* follows in the same tick on these transforms: it changes no transform, and
\* each event it writes places the overlap centre at path + translation of
\* either participant.  Response changes no transform.
C12_MovementBeforeDetection ==
    [][ /\ phase = "movement" =>
            /\ phase' = "collision"
            /\ tick' = tick + 1
            /\ channel' = channel
            /\ \A e \in Entities : transforms'[e] = Some(ClaimedTransform(e))
        /\ phase = "collision" =>
            /\ tick' = tick
            /\ transforms' = transforms
            /\ velocities' = velocities
            /\ \A i \in (Len(channel) + 1)..Len(channel') :
                /\ written'[i] = tick
                /\ VAdd(channel'[i].collisions[1].path,
                        Unwrap(transforms[channel'[i].collisions[1].entity]).translation)
                     = VAdd(channel'[i].collisions[2].path,
                            Unwrap(transforms[channel'[i].collisions[2].entity]).translation)
        /\ phase = "handle" =>
            /\ tick' = tick
            /\ transforms' = transforms
      ]_vars

\* Tick 2 after Detection: an entity with Velocity has moved in both axes, an
\* entity without Velocity is where it started, and tick 2 wrote an event.
C12_Witness ==
    /\ tick = 2
    /\ phase = "handle"
    /\ \E e \in Entities :
        /\ velocities[e] # None
        /\ ~IsNaNVec(Unwrap(transforms[e]).translation)
        /\ Unwrap(transforms[e]).translation[1] # StartTranslation(e)[1]
        /\ Unwrap(transforms[e]).translation[2] # StartTranslation(e)[2]
    /\ \E e \in Entities :
        /\ velocities[e] = None
        /\ Unwrap(transforms[e]).translation = StartTranslation(e)
    /\ \E i \in 1..Len(channel) : written[i] = 2

(***************************************************************************)
(* Properties of the roles of the two participants of an event.            *)
(***************************************************************************)
\* C13: the first participant of every event is the outer entity: it is never
\* passive (so an active-passive pair has the active entity first), for two
\* active entities it is the one the join visits first (the lower id), and the
\* events of one run follow the order in which the outer entities are visited.
C13_FirstIsOuter ==
    /\ \A i \in 1..Len(channel) :
        LET first == channel[i].collisions[1].entity
            second == channel[i].collisions[2].entity
        IN  /\ first \notin passive
            /\ second \notin passive => first < second
    /\ \A i, j \in 1..Len(channel) :
        i < j => channel[i].collisions[1].entity <= channel[j].collisions[1].entity

\* A run that wrote an event for an active-passive pair whose passive entity has
\* the lower id, and an event for two active entities.
C13_Witness ==
    /\ RunDone
    /\ \E i, j \in 1..Len(channel) :
        /\ channel[i].collisions[2].entity \in passive
        /\ channel[i].collisions[2].entity < channel[i].collisions[1].entity
        /\ channel[j].collisions[2].entity \notin passive

====
